---- MODULE Spec2Model ----
(***************************************************************************)
(* Waveshare 2.13" V4 e-paper driver (src/src/epd2in13_v4.rs).             *)
(*                                                                         *)
(* A driver operation is a straight-line sequence of primitive steps: a    *)
(* write to the data/command or reset line, a sleep, a write to the SPI    *)
(* bus, a poll of the busy line.  Each method of Epd2in13V4 is translated  *)
(* into the sequence of primitives it performs; one action of the model    *)
(* performs one primitive.  The log records what the current call did on   *)
(* the wires, in order.                                                    *)
(*                                                                         *)
(* The 1-bit framebuffer MonoImage (src/src/buffer.rs) is a record of its  *)
(* four fields; its methods are operators on that record.  BufSpec applies *)
(* them to buffers of small dimensions, RowSpec to one row of the panel's  *)
(* width.                                                                  *)
(*                                                                         *)
(* The front end (src/src/main.rs) is one thread that runs the command of  *)
(* the command line: clear, write, the stdin REPL or the socket server.    *)
(* FrontSpec follows it from one driver call to the next; a call is begun  *)
(* and later returns one of the results the method can give.               *)
(***************************************************************************)
EXTENDS Integers, Sequences, FiniteSets, TLC

VARIABLES
    epd,     \* the driver the front end owns: line levels, position, log, result, history
    fresh,   \* a newly constructed driver given the same call and the same responses
    op,      \* the operation being run (or last run), "none" before the first call
    arg,     \* its argument: an image, a colour, or "none"
    polls,   \* times the busy line read high in the current (or latest) busy-wait
    fb,      \* a MonoImage: width, height, bytes_per_row, data
    draws,   \* pixels handed to fb since it was created or cleared
    branch,  \* where the last of them went: skipped, returned from, or written
    cli,     \* the parsed command line of the run: fast, noinit, reverse_color, command
    fpc,     \* where the main thread of the front end is
    sessions,\* the REPL loop or the connections accepted so far: pc, partial, reads, line, response
    waiting, \* connections made by clients and not yet accepted
    owner,   \* who made the driver call in progress or last made: 0 is main(), else a session
    panel    \* what the run has told the panel last: nothing yet, to initialize, to sleep

bufvars == <<fb, draws, branch>>

fevars == <<cli, fpc, sessions, waiting, owner, panel>>

vars == <<epd, fresh, op, arg, polls, fb, draws, branch,
          cli, fpc, sessions, waiting, owner, panel>>

----------------------------------------------------------------------------
(* Bounds of the model *)

\* most consecutive polls of one busy-wait on which the busy line reads high
MaxBusy == 2

\* a MonoImage is created with a width in 0..MaxWidth and a height in
\* 0..MaxHeight
MaxWidth == 9
MaxHeight == 2

\* most pixels handed to a MonoImage between two clears
MaxDraws == 1

\* most connections clients make to the socket in one run of the server
MaxConns == 2

\* most lines read from stdin by the REPL, or from one connection
MaxReads == 2

----------------------------------------------------------------------------
(* Constants of the program *)

WIDTH == 122
HEIGHT == 250

\* with_spi: let bytes_per_row = ((Self::WIDTH as usize) + 7) / 8
bytes_per_row == (WIDTH + 7) \div 8

Levels == {"low", "high"}

\* BinaryColor
Colors == {"On", "Off"}

\* UpdateMode
UpdateModes == {"Normal", "Fast", "Partial"}

\* the errors the SPI transport can return from a write
SpiErrors == {"Io"}

\* EpdError::Spi(#[from] rppal::spi::Error)
EpdError_Spi(e) == [err |-> "Spi", cause |-> e]

\* EpdError::BufferSize { expected, actual }
EpdError_BufferSize(expected, actual) ==
    [err |-> "BufferSize", expected |-> expected, actual |-> actual]

Ok == [err |-> "none"]
Running == [err |-> "running"]

----------------------------------------------------------------------------
(* Primitive steps *)

SetLine(pin, level) == [k |-> "line", pin |-> pin, level |-> level]
Sleep(ms) == [k |-> "sleep", ms |-> ms]
SpiWrite(prim, bytes) == [k |-> "write", prim |-> prim, bytes |-> bytes]
PollBusy == [k |-> "poll"]
Raise(e) == [k |-> "raise", error |-> e]

\* u8 and u16 arithmetic of set_window / set_cursor
U8(n) == n % 256
Shr8(n) == n \div 256
And255(n) == n % 256

----------------------------------------------------------------------------
(* The methods of Epd2in13V4.  self is the driver record.  The private     *)
(* helpers yield the primitives they perform; a public method yields its   *)
(* body as blocks, a block being primitives performed a number of times.   *)

Once(body) == << [times |-> 1, body |-> body] >>
Repeat(n, body) == << [times |-> n, body |-> body] >>

\* mutant: the command primitive wraps the error with its own name
command_error_tagged(e) == [err |-> "Spi", cause |-> e, primitive |-> "command"]

\* the `?` on self.spi.write in command: From<rppal::spi::Error> for EpdError
command_error(e) == EpdError_Spi(e)

\* the `?` on self.spi.write in data
data_error(e) == EpdError_Spi(e)

\* mutant: the data/command line is driven after the opcode has gone out
command_late(self, c) == << SpiWrite("command", <<c>>), SetLine("dc", "low") >>

command(self, c) == << SetLine("dc", "low"), SpiWrite("command", <<c>>) >>

data(self, d) == << SetLine("dc", "high"), SpiWrite("data", d) >>

command_data(self, c, d) == command(self, c) \o data(self, d)

reset(self) ==
    << SetLine("rst", "high"), Sleep(20),
       SetLine("rst", "low"), Sleep(2),
       SetLine("rst", "high"), Sleep(20) >>

\* mutant: the settle sleep after the loop is left out
wait_until_idle_nosettle(self) == << PollBusy >>

\* while self.busy.is_high() { sleep(10) }; sleep(10)
\* PollBusy stays in place while the line reads high, sleeping 10 ms each time.
wait_until_idle(self) == << PollBusy, Sleep(10) >>

set_window(self, x_start, y_start, x_end, y_end) ==
    command_data(self, 68, << U8(x_start \div 8), U8(x_end \div 8) >>)
    \o command_data(self, 69, << U8(And255(y_start)), U8(Shr8(y_start)),
                                 U8(And255(y_end)), U8(Shr8(y_end)) >>)

set_cursor(self, x, y) ==
    command_data(self, 78, << U8(x \div 8) >>)
    \o command_data(self, 79, << U8(And255(y)), U8(Shr8(y)) >>)

ControlByte(mode) ==
    CASE mode = "Normal" -> 247
      [] mode = "Fast" -> 199
      [] mode = "Partial" -> 255

\* mutant: master activation is not followed by the busy-wait
turn_on_display_nowait(self, mode) ==
    command_data(self, 34, << ControlByte(mode) >>)
    \o command(self, 32)

turn_on_display(self, mode) ==
    command_data(self, 34, << ControlByte(mode) >>)
    \o command(self, 32)
    \o wait_until_idle(self)

\* mutant: the two fields of BufferSize are filled the wrong way round
write_image_swapped(self, cmd, image) ==
    LET expected == bytes_per_row * HEIGHT
    IN  IF Len(image) # expected
        THEN << Raise(EpdError_BufferSize(Len(image), expected)) >>
        ELSE command(self, cmd) \o data(self, image)

\* mutant: the RAM-write command goes out before the length is checked
write_image_late(self, cmd, image) ==
    LET expected == bytes_per_row * HEIGHT
    IN  IF Len(image) # expected
        THEN command(self, cmd) \o << Raise(EpdError_BufferSize(expected, Len(image))) >>
        ELSE command(self, cmd) \o data(self, image)

write_image(self, cmd, image) ==
    LET expected == bytes_per_row * HEIGHT
    IN  IF Len(image) # expected
        THEN << Raise(EpdError_BufferSize(expected, Len(image))) >>
        ELSE command(self, cmd) \o data(self, image)

init(self) == Once(
    reset(self)
    \o wait_until_idle(self)
    \o command(self, 18)
    \o wait_until_idle(self)
    \o command_data(self, 1, <<249, 0, 0>>)
    \o command_data(self, 17, <<3>>)
    \o set_window(self, 0, 0, WIDTH - 1, HEIGHT - 1)
    \o set_cursor(self, 0, 0)
    \o command_data(self, 60, <<5>>)
    \o command_data(self, 33, <<0, 128>>)
    \o command_data(self, 24, <<128>>)
    \o wait_until_idle(self))

init_fast(self) == Once(
    reset(self)
    \o command(self, 18)
    \o wait_until_idle(self)
    \o command_data(self, 24, <<128>>)
    \o command_data(self, 17, <<3>>)
    \o set_window(self, 0, 0, WIDTH - 1, HEIGHT - 1)
    \o set_cursor(self, 0, 0)
    \o command_data(self, 34, <<177>>)
    \o command(self, 32)
    \o wait_until_idle(self)
    \o command_data(self, 26, <<100, 0>>)
    \o command_data(self, 34, <<145>>)
    \o command(self, 32)
    \o wait_until_idle(self))

\* mutant: the fill byte of the other colour
Fill_inverted(color) == IF color = "On" THEN 255 ELSE 0

Fill(color) == IF color = "On" THEN 0 ELSE 255

\* let line = vec![fill; self.bytes_per_row];
\* for _ in 0..Self::HEIGHT { self.data(&line)?; }
clear(self, color) ==
    LET line == [i \in 1..bytes_per_row |-> Fill(color)]
    IN  Once(command(self, 36))
        \o Repeat(HEIGHT, data(self, line))
        \o Once(turn_on_display(self, "Normal"))

\* mutant: display keeps the mode of the last init call
display_sticky(self, image) == Once(
    write_image(self, 36, image)
    \o turn_on_display(self, IF self.hist.lastInit = "Fast" THEN "Fast" ELSE "Normal"))

display(self, image) == Once(
    write_image(self, 36, image)
    \o turn_on_display(self, "Normal"))

\* mutant: display_fast refreshes with the Normal waveform
display_fast_normal(self, image) == Once(
    write_image(self, 36, image)
    \o turn_on_display(self, "Normal"))

display_fast(self, image) == Once(
    write_image(self, 36, image)
    \o turn_on_display(self, "Fast"))

\* mutant: the previous-frame memory is written before the current one
display_base_previous_first(self, image) == Once(
    write_image(self, 38, image)
    \o write_image(self, 36, image)
    \o turn_on_display(self, "Normal"))

display_base(self, image) == Once(
    write_image(self, 36, image)
    \o write_image(self, 38, image)
    \o turn_on_display(self, "Normal"))

\* mutant: a partial update is refused until a base frame has been written
display_partial_guarded(self, image) ==
    IF self.hist.baseDone
    THEN Once(reset(self)
              \o command_data(self, 60, <<128>>)
              \o command_data(self, 1, <<249, 0, 0>>)
              \o command_data(self, 17, <<3>>)
              \o set_window(self, 0, 0, WIDTH - 1, HEIGHT - 1)
              \o set_cursor(self, 0, 0)
              \o write_image(self, 36, image)
              \o turn_on_display(self, "Partial"))
    ELSE Once(<< Raise([err |-> "NoBaseFrame"]) >>)

display_partial(self, image) == Once(
    reset(self)
    \o command_data(self, 60, <<128>>)
    \o command_data(self, 1, <<249, 0, 0>>)
    \o command_data(self, 17, <<3>>)
    \o set_window(self, 0, 0, WIDTH - 1, HEIGHT - 1)
    \o set_cursor(self, 0, 0)
    \o write_image(self, 36, image)
    \o turn_on_display(self, "Partial"))

sleep(self) == Once(
    command_data(self, 16, <<1>>)
    \o << Sleep(100) >>)

(* Inputs the front end can hand to the driver *)

Expected == bytes_per_row * HEIGHT

\* MonoImage::new(WIDTH, HEIGHT) cleared to the background: every byte 0xFF
ImageBlank == [i \in 1..Expected |-> 255]
\* a frame with ink in it
ImageInk == [i \in 1..Expected |-> IF i % bytes_per_row = 1 THEN 0 ELSE 255]
\* byte arrays that are not a frame of the panel
ImageShort == [i \in 1..(Expected - 1) |-> 255]
ImageLong == [i \in 1..(Expected + 1) |-> 255]
\* the same two frames with the colours reversed
ImageBlack == [i \in 1..Expected |-> 0]
ImageReverse == [i \in 1..Expected |-> IF i % bytes_per_row = 1 THEN 255 ELSE 0]

\* image: &[u8] is a borrowed slice; the call carries the reference
Images == {"blank", "ink", "short", "long"}

Bytes(image) ==
    CASE image = "blank" -> ImageBlank
      [] image = "ink" -> ImageInk
      [] image = "short" -> ImageShort
      [] image = "long" -> ImageLong
      [] image = "black" -> ImageBlack
      [] image = "reverse" -> ImageReverse

ImageOps == {"display", "display_fast", "display_base", "display_partial"}
DisplayOps == ImageOps \cup {"clear"}

Program(self, o, a) ==
    CASE o = "init" -> init(self)
      [] o = "init_fast" -> init_fast(self)
      [] o = "clear" -> clear(self, a)
      [] o = "display" -> display(self, Bytes(a))
      [] o = "display_fast" -> display_fast(self, Bytes(a))
      [] o = "display_base" -> display_base(self, Bytes(a))
      [] o = "display_partial" -> display_partial(self, Bytes(a))
      [] o = "sleep" -> sleep(self)

\* number of primitives of a method body
RECURSIVE Length(_)
Length(blocks) ==
    IF blocks = << >> THEN 0
    ELSE Head(blocks).times * Len(Head(blocks).body) + Length(Tail(blocks))

\* the i-th primitive of a method body
RECURSIVE At(_, _)
At(blocks, i) ==
    LET b == Head(blocks)
        n == Len(b.body)
    IN  IF i <= b.times * n THEN b.body[((i - 1) % n) + 1]
        ELSE At(Tail(blocks), i - b.times * n)

----------------------------------------------------------------------------
(* MonoImage (src/src/buffer.rs).  The bytes of data are numbered from 0   *)
(* in the source and from 1 here.                                          *)

\* the operators &, | and ! on u8 and on the low bits of a u32
RECURSIVE BitAnd(_, _)
BitAnd(a, b) ==
    IF a = 0 \/ b = 0 THEN 0
    ELSE (IF a % 2 = 1 /\ b % 2 = 1 THEN 1 ELSE 0) + 2 * BitAnd(a \div 2, b \div 2)

RECURSIVE BitOr(_, _)
BitOr(a, b) ==
    IF a = 0 THEN b
    ELSE IF b = 0 THEN a
    ELSE (IF a % 2 = 1 \/ b % 2 = 1 THEN 1 ELSE 0) + 2 * BitOr(a \div 2, b \div 2)

BitNot8(a) == 255 - a

\* mutant: the row is as many whole bytes as the width holds
MonoImage_new_floor(width, height) ==
    LET bpr == width \div 8
        len == bpr * height
    IN  [width |-> width, height |-> height, bytes_per_row |-> bpr,
         data |-> [i \in 1..len |-> 255]]

\* MonoImage::new
MonoImage_new(width, height) ==
    LET bpr == (width + 7) \div 8
        len == bpr * height
    IN  [width |-> width, height |-> height, bytes_per_row |-> bpr,
         data |-> [i \in 1..len |-> 255]]

\* mutant: the fill bytes of the two colours are exchanged
MonoImage_clear_inverted(self, color) ==
    LET fill == IF color = "Off" THEN 0 ELSE 255
    IN  [self EXCEPT !.data = [i \in 1..Len(self.data) |-> fill]]

\* MonoImage::clear
MonoImage_clear(self, color) ==
    LET fill == IF color = "Off" THEN 255 ELSE 0
    IN  [self EXCEPT !.data = [i \in 1..Len(self.data) |-> fill]]

\* mutant: bit 0 of a byte is its leftmost pixel
mask_lsb_first(x) == 2 ^ BitAnd(x, 7)

\* let mask = 0x80 >> (x & 0x07)
mask(x) == 128 \div (2 ^ BitAnd(x, 7))

\* mutant: a write inverts the bit of the pixel
set_pixel_toggle(self, x, y, color) ==
    IF x >= self.width \/ y >= self.height
    THEN self
    ELSE LET idx == y * self.bytes_per_row + (x \div 8)
         IN  [self EXCEPT !.data[idx + 1] =
                 IF BitAnd(@, mask(x)) = 0 THEN BitOr(@, mask(x))
                                           ELSE BitAnd(@, BitNot8(mask(x)))]

\* mutant: the pixel is written without the test of its coordinates
set_pixel_unchecked(self, x, y, color) ==
    LET idx == y * self.bytes_per_row + (x \div 8)
    IN  IF idx + 1 \in DOMAIN self.data
        THEN [self EXCEPT !.data[idx + 1] =
                 IF color = "Off" THEN BitOr(@, mask(x))
                                  ELSE BitAnd(@, BitNot8(mask(x)))]
        ELSE self

\* mutant: the whole byte of the pixel is written
set_pixel_whole_byte(self, x, y, color) ==
    IF x >= self.width \/ y >= self.height
    THEN self
    ELSE LET idx == y * self.bytes_per_row + (x \div 8)
         IN  [self EXCEPT !.data[idx + 1] = IF color = "Off" THEN 255 ELSE 0]

\* MonoImage::set_pixel; x and y are u32
set_pixel(self, x, y, color) ==
    IF x >= self.width \/ y >= self.height
    THEN self
    ELSE LET idx == y * self.bytes_per_row + (x \div 8)
         IN  [self EXCEPT !.data[idx + 1] =
                 IF color = "Off" THEN BitOr(@, mask(x))
                                  ELSE BitAnd(@, BitNot8(mask(x)))]

\* Pixel(coord, color); the components of coord are i32
Pixel(x, y, color) == [x |-> x, y |-> y, color |-> color]

\* DrawTarget::draw_iter: the buffer after the pixels, and the value returned
RECURSIVE draw_iter(_, _)
draw_iter(self, pixels) ==
    IF pixels = << >>
    THEN [image |-> self, result |-> Ok]
    ELSE LET p == Head(pixels)
         IN  IF p.x < 0 \/ p.y < 0
             THEN draw_iter(self, Tail(pixels))
             ELSE draw_iter(set_pixel(self, p.x, p.y, p.color), Tail(pixels))

\* DrawTarget::clear
DrawTarget_clear(self, color) == [image |-> MonoImage_clear(self, color), result |-> Ok]

\* the dimensions a MonoImage is created with
Dims == (0..MaxWidth) \X (0..MaxHeight)

\* the pixels handed to a buffer: every coordinate of it and the ones just
\* outside on each side, in either colour
Pixels(self) ==
    { Pixel(x, y, color) : x \in -1..self.width, y \in -1..self.height, color \in Colors }

\* the way of a pixel through draw_iter and set_pixel: `continue` on a
\* negative component, the early return of set_pixel, or the write to data
Branch(self, p) ==
    CASE p.x < 0 \/ p.y < 0 -> "continue"
      [] p.x >= 0 /\ p.y >= 0 /\ (p.x >= self.width \/ p.y >= self.height) -> "return"
      [] OTHER -> "write"

\* the driver specifications have no framebuffer
NoFramebuffer == MonoImage_new(0, 0)

----------------------------------------------------------------------------
(* The driver object *)

NotCalled == [err |-> "not_called"]

NoHistory == [lastInit |-> "none", baseDone |-> FALSE, asleep |-> FALSE]

\* Epd2in13V4::with_spi: the lines become outputs at whatever level they have
New(dcLevel, rstLevel) ==
    [dc |-> dcLevel, rst |-> rstLevel, pc |-> 1, log |-> << >>,
     result |-> NotCalled, hist |-> NoHistory]

\* a driver whose calls nobody keeps track of
Untracked == [lastInit |-> "untracked", baseDone |-> FALSE, asleep |-> FALSE]

\* what an observer knows of the calls that returned Ok so far; the driver
\* itself has no such field
Completed(h, o) ==
    CASE h = Untracked -> h
      [] o = "init" -> [h EXCEPT !.lastInit = "Normal", !.asleep = FALSE]
      [] o = "init_fast" -> [h EXCEPT !.lastInit = "Fast", !.asleep = FALSE]
      [] o = "display_base" -> [h EXCEPT !.baseDone = TRUE]
      [] o = "sleep" -> [h EXCEPT !.asleep = TRUE]
      [] OTHER -> h

Begin(d) == [d EXCEPT !.pc = 1, !.log = << >>, !.result = Running]

Current(d) == At(Program(d, op, arg), d.pc)

\* responses of the environment to one primitive
NoResponse == [r |-> "none"]
WriteOk == [r |-> "ok"]
WriteErr(c) == [r |-> "err", cause |-> c]
BusyReads(level) == [r |-> level]

\* what the bus saw of a write: the level of the data/command line, the bytes,
\* and what the transport returned ("ok" or its error)
Written(d, ins, ret) ==
    [k |-> "write", dc |-> d.dc, bytes |-> ins.bytes, ret |-> ret]

BusyRead(level) == [k |-> "busy", level |-> level]

\* mutant: the result of the write is dropped and the method carries on
Propagate_ignored(d, ins, e) ==
    [d EXCEPT !.log = Append(@, Written(d, ins, e.cause)), !.pc = @ + 1]

\* the `?` operator: an Err leaves the method at once with the converted error
Propagate(d, ins, e) ==
    [d EXCEPT !.log = Append(@, Written(d, ins, e.cause)),
              !.result = IF ins.prim = "command" THEN command_error(e.cause)
                                                 ELSE data_error(e.cause)]

\* mutant: the busy-wait gives up after one poll that read high
Poll_timeout(d, e) ==
    IF e.r = "high"
    THEN [d EXCEPT !.log = @ \o << BusyRead("high"), Sleep(10) >>, !.pc = @ + 1]
    ELSE [d EXCEPT !.log = Append(@, BusyRead("low")), !.pc = @ + 1]

\* while self.busy.is_high() { sleep(Duration::from_millis(10)); }
\* one evaluation of the loop condition: the line reads high, the body sleeps
\* and the condition is evaluated again; the line reads low, the loop ends
Poll(d, e) ==
    IF e.r = "high"
    THEN [d EXCEPT !.log = @ \o << BusyRead("high"), Sleep(10) >>]
    ELSE [d EXCEPT !.log = Append(@, BusyRead("low")), !.pc = @ + 1]

\* one primitive of the method d is in, given the environment's response e
Perform(d, ins, e) ==
    CASE ins.k = "line" ->
           [d EXCEPT ![ins.pin] = ins.level, !.log = Append(@, ins), !.pc = @ + 1]
      [] ins.k = "sleep" ->
           [d EXCEPT !.log = Append(@, ins), !.pc = @ + 1]
      [] ins.k = "write" ->
           IF e.r = "err"
           THEN Propagate(d, ins, e)
           ELSE [d EXCEPT !.log = Append(@, Written(d, ins, "ok")), !.pc = @ + 1]
      [] ins.k = "poll" -> Poll(d, e)
      [] ins.k = "raise" ->
           [d EXCEPT !.result = ins.error]

\* falling off the end of the method is `Ok(())`
Exec(d, e) ==
    IF d.result # Running
    THEN d
    ELSE LET prog == Program(d, op, arg)
             n == Perform(d, At(prog, d.pc), e)
         IN  IF n.result = Running /\ n.pc > Length(prog)
             THEN [n EXCEPT !.result = Ok, !.hist = Completed(@, op)]
             ELSE n

----------------------------------------------------------------------------
(* The front end: its command line, its inputs and the calls it makes *)

Commands == {"Clear", "Write", "Repl", "Serve"}

\* struct Cli, with the default command filled in
Clis == [fast : BOOLEAN, noinit : BOOLEAN, reverse_color : BOOLEAN, command : Commands]

NoCli == [fast |-> FALSE, noinit |-> FALSE, reverse_color |-> FALSE, command |-> "none"]

fg_color(c) == IF c.reverse_color THEN "Off" ELSE "On"
bg_color(c) == IF c.reverse_color THEN "On" ELSE "Off"

\* blank_framebuffer(bg).data(): a WIDTH by HEIGHT MonoImage cleared to bg
blank_framebuffer(bg) == IF bg = "Off" THEN "blank" ELSE "black"

\* build_framebuffer(message, fg, bg).data(): the same cleared buffer with the
\* text drawn on it in fg
build_framebuffer(fg, bg) == IF bg = "Off" THEN "ink" ELSE "reverse"

\* a line is the words on it; the words here that begin with '/'
SlashWords == {"/clear", "/partial", "/nopartial", "/help"}

\* what the REPL reads from stdin, besides the end of input and a failed read
ReplLines == { <<"/clear">>, <<"/partial">>, <<"/nopartial">>, <<"/help">>,
               << >>, <<"hello">> }

\* what a client sends on a connection, line by line
PacketLines == { <<"CLEAR">>, <<"clear">>, <<"PARTIAL_ON">>, <<"PARTIAL_OFF">>,
                 <<"PING">>, <<"TEXT", "hello">>, <<"TEXT">>, <<"hello">>, << >> }

to_ascii_uppercase(w) ==
    CASE w = "clear" -> "CLEAR"
      [] w = "hello" -> "HELLO"
      [] OTHER -> w

None == << >>

\* parse_packet: the head decides the command; Text carries the rest of the
\* line, or the whole line when the head is no command
parse_packet(input) ==
    LET head == IF input = << >> THEN "" ELSE to_ascii_uppercase(Head(input))
        payload == IF Len(input) > 1 THEN Tail(input) ELSE None
    IN  CASE head = "CLEAR" -> [cmd |-> "Clear", payload |-> None]
          [] head = "PARTIAL_ON" -> [cmd |-> "PartialOn", payload |-> None]
          [] head = "PARTIAL_OFF" -> [cmd |-> "PartialOff", payload |-> None]
          [] head = "PING" -> [cmd |-> "Ping", payload |-> None]
          [] head = "TEXT" -> [cmd |-> "Text", payload |-> payload]
          [] OTHER -> [cmd |-> "Text", payload |-> input]

\* mutant: the loop starts with partial updates on
NewSession_partial_on ==
    [pc |-> "read", partial |-> TRUE, base |-> FALSE, reads |-> 0, line |-> << >>, response |-> ""]

\* let mut partial = false, at the top of run_repl and of handle_connection;
\* base records that a display_base call of this loop has returned Ok
NewSession ==
    [pc |-> "read", partial |-> FALSE, base |-> FALSE, reads |-> 0, line |-> << >>, response |-> ""]

\* the loop has been left, by the end of input or by an error
Done ==
    [pc |-> "done", partial |-> FALSE, base |-> FALSE, reads |-> 0, line |-> << >>, response |-> ""]

\* the panel before the run has spoken to it: as an earlier run, or the power
\* supply, left it
PowerOn == "unknown"

\* what the panel has been told last: to sleep, or to initialize
Issued(p, o) ==
    CASE o = "sleep" -> "asleep"
      [] o \in {"init", "init_fast"} -> "awake"
      [] OTHER -> p

\* the driver specifications and the framebuffer run without a front end
NoFrontEnd ==
    /\ cli = NoCli
    /\ fpc = "none"
    /\ sessions = << >>
    /\ waiting = 0
    /\ owner = 0
    /\ panel = PowerOn

\* The results a driver method can return: the error of its Raise if it has
\* one, else Ok; and the converted error of every bus write it reaches.
Results(self, o, a) ==
    LET prog == Program(self, o, a)
        n == Length(prog)
        raises == { i \in 1..n : At(prog, i).k = "raise" }
        stop == IF raises = {} THEN n + 1
                ELSE CHOOSE i \in raises : \A j \in raises : i <= j
        writes == { i \in 1..(stop - 1) : At(prog, i).k = "write" }
    IN  { IF At(prog, i).prim = "command" THEN command_error(c) ELSE data_error(c) :
             i \in writes, c \in SpiErrors }
        \cup (IF raises = {} THEN {Ok} ELSE { At(prog, stop).error })

\* the method returns r
Finish(d, r) ==
    [d EXCEPT !.result = r, !.hist = IF r = Ok THEN Completed(@, op) ELSE @]

----------------------------------------------------------------------------
(* Actions *)

\* The lines of the front end's driver start at either level.  The driver it
\* is compared with is constructed anew at every call, with both lines low:
\* the front end's own driver, before its first call, covers the other levels.
Init ==
    /\ \E dcLevel \in Levels, rstLevel \in Levels : epd = New(dcLevel, rstLevel)
    /\ fresh = New("low", "low")
    /\ op = "none"
    /\ arg = "none"
    /\ polls = 0
    /\ fb = NoFramebuffer
    /\ draws = 0
    /\ branch = "none"
    /\ NoFrontEnd

Call(o, a) ==
    /\ epd.result # Running
    /\ op' = o
    /\ arg' = a
    /\ epd' = Begin(epd)
    /\ fresh' = Begin(New("low", "low"))
    /\ polls' = 0
    /\ UNCHANGED bufvars
    /\ UNCHANGED fevars

CallInit == Call("init", "none")
CallInitFast == Call("init_fast", "none")
CallClear == \E color \in Colors : Call("clear", color)
CallDisplay == \E image \in Images : Call("display", image)
CallDisplayFast == \E image \in Images : Call("display_fast", image)
CallDisplayBase == \E image \in Images : Call("display_base", image)
CallDisplayPartial == \E image \in Images : Call("display_partial", image)
CallSleep == Call("sleep", "none")

Step(kind, e) ==
    /\ epd.result = Running
    /\ Current(epd).k = kind
    /\ epd' = Exec(epd, e)
    /\ fresh' = Exec(fresh, e)
    /\ UNCHANGED <<op, arg, fb, draws, branch>>
    /\ UNCHANGED fevars

\* polls counts the high reads of one busy-wait: it starts again at the next
\* line or bus write, and is kept over the settle sleep and the return.
StepLine == Step("line", NoResponse) /\ polls' = 0
StepSleep == Step("sleep", NoResponse) /\ UNCHANGED polls
StepWriteOk == Step("write", WriteOk) /\ polls' = 0
StepWriteFail == \E c \in SpiErrors : Step("write", WriteErr(c)) /\ polls' = 0
StepRaise == Step("raise", NoResponse) /\ UNCHANGED polls

\* The busy line reads high.  The model follows MaxBusy such reads of one
\* busy-wait; further ones change nothing the model records (they are
\* stuttering steps), so a line that stays high keeps the driver here.
StepBusyHigh == polls < MaxBusy /\ Step("poll", BusyReads("high")) /\ polls' = polls + 1
StepBusyIdle == Step("poll", BusyReads("low")) /\ UNCHANGED polls

Next ==
    \/ CallInit
    \/ CallInitFast
    \/ CallClear
    \/ CallDisplay
    \/ CallDisplayFast
    \/ CallDisplayBase
    \/ CallDisplayPartial
    \/ CallSleep
    \/ StepLine
    \/ StepSleep
    \/ StepWriteOk
    \/ StepWriteFail
    \/ StepBusyHigh
    \/ StepBusyIdle
    \/ StepRaise

Spec == Init /\ [][Next]_vars

\* The calling thread runs every primitive it has reached, and the busy line
\* of a working panel eventually reads idle.
Progress == StepLine \/ StepSleep \/ StepWriteOk \/ StepRaise \/ StepBusyIdle

\* the same driver and the same calls, without the record of past calls
LiveInit ==
    /\ \E dcLevel \in Levels, rstLevel \in Levels :
          epd = [New(dcLevel, rstLevel) EXCEPT !.hist = Untracked]
    /\ fresh = New("low", "low")
    /\ op = "none"
    /\ arg = "none"
    /\ polls = 0
    /\ fb = NoFramebuffer
    /\ draws = 0
    /\ branch = "none"
    /\ NoFrontEnd

LiveSpec == LiveInit /\ [][Next]_vars /\ WF_vars(Progress)

----------------------------------------------------------------------------
(* The framebuffer on its own: it is created, cleared and drawn on *)

BufInit ==
    /\ \E d \in Dims : fb = MonoImage_new(d[1], d[2])
    /\ draws = 0
    /\ branch = "none"
    /\ epd = New("low", "low")
    /\ fresh = New("low", "low")
    /\ op = "none"
    /\ arg = "none"
    /\ polls = 0
    /\ NoFrontEnd

\* MonoImage::clear, called on the buffer directly or through DrawTarget::clear
BufClear ==
    /\ \E color \in Colors : fb' = DrawTarget_clear(fb, color).image
    /\ draws' = 0
    /\ branch' = "none"
    /\ UNCHANGED <<epd, fresh, op, arg, polls>>
    /\ UNCHANGED fevars

\* DrawTarget::draw_iter, called with one pixel; a longer batch does to the
\* buffer what as many calls with one pixel each do
BufDrawIter ==
    /\ draws < MaxDraws
    /\ \E p \in Pixels(fb) :
          /\ fb' = draw_iter(fb, <<p>>).image
          /\ branch' = Branch(fb, p)
    /\ draws' = draws + 1
    /\ UNCHANGED <<epd, fresh, op, arg, polls>>
    /\ UNCHANGED fevars

BufNext ==
    \/ BufClear
    \/ BufDrawIter

BufSpec == BufInit /\ [][BufNext]_vars

\* one row of the framebuffer the front end builds: MonoImage::new(WIDTH, _)
RowInit ==
    /\ fb = MonoImage_new(WIDTH, 1)
    /\ draws = 0
    /\ branch = "none"
    /\ epd = New("low", "low")
    /\ fresh = New("low", "low")
    /\ op = "none"
    /\ arg = "none"
    /\ polls = 0
    /\ NoFrontEnd

RowSpec == RowInit /\ [][BufNext]_vars

----------------------------------------------------------------------------
(* The front end from call to call *)

\* main(): the command line is parsed and the driver constructed
Entry(c) == IF c.command = "Serve" THEN "remove_file" ELSE "maybe_init"

FrontInit ==
    /\ \E c \in Clis : cli = c /\ fpc = Entry(c)
    /\ sessions = << >>
    /\ waiting = 0
    /\ owner = 0
    /\ panel = PowerOn
    /\ epd = New("low", "low")
    /\ fresh = New("low", "low")
    /\ op = "none"
    /\ arg = "none"
    /\ polls = 0
    /\ fb = NoFramebuffer
    /\ draws = 0
    /\ branch = "none"

\* a driver method is called by who
FeCall(who, o, a) ==
    /\ epd' = Begin(epd)
    /\ op' = o
    /\ arg' = a
    /\ owner' = who
    /\ panel' = Issued(panel, o)
    /\ UNCHANGED <<fresh, polls>>
    /\ UNCHANGED bufvars

\* the main thread goes on at next; run_repl starts its loop with partial off
Goto(next) ==
    /\ fpc' = next
    /\ sessions' = IF next = "run_repl" THEN << NewSession >>
                   ELSE IF next \in {"sleep", "exit_ok", "exit_err"} THEN << >>
                   ELSE sessions

\* where main() goes after maybe_init
AfterInit(c) ==
    CASE c.command = "Clear" -> "clear"
      [] c.command = "Write" -> "render_text"
      [] c.command = "Repl" -> "run_repl"
      [] c.command = "Serve" -> "bind"

\* the calls main() makes itself, and where it goes when one returns Ok
MainSites == {"maybe_init", "clear", "render_text", "sleep"}

\* mutant: the panel is put to sleep right after maybe_init
NextSite_sleep_first(site, c) ==
    CASE site = "maybe_init" -> "sleep"
      [] site = "sleep" -> AfterInit(c)
      [] site = "clear" -> "exit_ok"
      [] site = "render_text" -> "exit_ok"

NextSite(site, c) ==
    CASE site = "maybe_init" -> AfterInit(c)
      [] site = "clear" -> "sleep"
      [] site = "render_text" -> "sleep"
      [] site = "sleep" -> "exit_ok"

Idle == epd.result # Running

\* maybe_init with --noinit: nothing is called
MaybeInitSkip ==
    /\ fpc = "maybe_init" /\ Idle
    /\ cli.noinit
    /\ Goto(AfterInit(cli))
    /\ UNCHANGED <<epd, fresh, op, arg, polls, cli, waiting, owner, panel>>
    /\ UNCHANGED bufvars

\* maybe_init: init_fast() with --fast, else init()
MaybeInitCall ==
    /\ fpc = "maybe_init" /\ Idle
    /\ ~ cli.noinit
    /\ FeCall(0, IF cli.fast THEN "init_fast" ELSE "init", "none")
    /\ UNCHANGED <<cli, fpc, sessions, waiting>>

\* Command::Clear: epd.clear(bg_color)
ClearCall ==
    /\ fpc = "clear" /\ Idle
    /\ FeCall(0, "clear", bg_color(cli))
    /\ UNCHANGED <<cli, fpc, sessions, waiting>>

\* render_text: display_fast with --fast, else display
RenderTextCall ==
    /\ fpc = "render_text" /\ Idle
    /\ FeCall(0, IF cli.fast THEN "display_fast" ELSE "display",
               build_framebuffer(fg_color(cli), bg_color(cli)))
    /\ UNCHANGED <<cli, fpc, sessions, waiting>>

\* epd.sleep(), the last statement of Clear, of Write and of run_repl
SleepCall ==
    /\ fpc = "sleep" /\ Idle
    /\ FeCall(0, "sleep", "none")
    /\ UNCHANGED <<cli, fpc, sessions, waiting>>

\* a call of main() returns: Ok goes on, an error leaves main() through `?`
MainReturn ==
    /\ fpc \in MainSites /\ owner = 0 /\ epd.result = Running
    /\ \E r \in Results(epd, op, arg) :
          /\ epd' = Finish(epd, r)
          /\ Goto(IF r = Ok THEN NextSite(fpc, cli) ELSE "exit_err")
    /\ UNCHANGED <<fresh, op, arg, polls, cli, waiting, owner, panel>>
    /\ UNCHANGED bufvars

----------------------------------------------------------------------------
(* run_repl *)

\* what is left unchanged by a step of a loop that calls nothing
NoCall == UNCHANGED <<epd, fresh, op, arg, polls, fb, draws, branch, cli, waiting, owner, panel>>

\* the next line of stdin
ReplRead ==
    /\ fpc = "run_repl" /\ sessions[1].pc = "read"
    /\ sessions[1].reads < MaxReads
    /\ \E line \in ReplLines :
          sessions' = [sessions EXCEPT ![1].pc = "dispatch", ![1].line = line,
                                        ![1].reads = @ + 1]
    /\ UNCHANGED fpc
    /\ NoCall

\* stdin is at its end: the loop is left and the panel put to sleep
ReplEof ==
    /\ fpc = "run_repl" /\ sessions[1].pc = "read"
    /\ Goto("sleep")
    /\ NoCall

\* let line = line?: reading stdin failed
ReplReadError ==
    /\ fpc = "run_repl" /\ sessions[1].pc = "read"
    /\ Goto("exit_err")
    /\ NoCall

\* a line that makes the REPL call the driver: /clear, /partial, or text
ReplCalls(line) ==
    IF line = << >> THEN FALSE
    ELSE IF Head(line) \in SlashWords THEN Head(line) \in {"/clear", "/partial"}
    ELSE TRUE

\* /nopartial, an unknown command, an empty line: nothing is called
ReplLocal ==
    /\ fpc = "run_repl" /\ sessions[1].pc = "dispatch"
    /\ LET line == sessions[1].line
       IN  /\ ~ ReplCalls(line)
           /\ sessions' = [sessions EXCEPT
                 ![1].pc = "read",
                 ![1].line = << >>,
                 ![1].partial = IF line = <<"/nopartial">> THEN FALSE ELSE @]
    /\ UNCHANGED fpc
    /\ NoCall

\* the driver call of a line: /clear, /partial, or text
ReplOp(session, c) ==
    LET line == session.line
    IN  CASE line = <<"/clear">> -> <<"clear", bg_color(c)>>
          [] line = <<"/partial">> -> <<"display_base", blank_framebuffer(bg_color(c))>>
          [] OTHER ->
               << IF session.partial THEN "display_partial"
                  ELSE IF c.fast THEN "display_fast" ELSE "display",
                  build_framebuffer(fg_color(c), bg_color(c)) >>

ReplCall ==
    /\ fpc = "run_repl" /\ sessions[1].pc = "dispatch"
    /\ ReplCalls(sessions[1].line)
    /\ FeCall(1, ReplOp(sessions[1], cli)[1], ReplOp(sessions[1], cli)[2])
    /\ sessions' = [sessions EXCEPT ![1].pc = "call"]
    /\ UNCHANGED <<cli, fpc, waiting>>

\* the call returns: Ok reads on (after /partial with partial on), an error
\* leaves run_repl through `?`, without the sleep
ReplReturn ==
    /\ fpc = "run_repl" /\ sessions[1].pc = "call"
    /\ owner = 1 /\ epd.result = Running
    /\ \E r \in Results(epd, op, arg) :
          /\ epd' = Finish(epd, r)
          /\ IF r = Ok
             THEN /\ sessions' = [sessions EXCEPT
                        ![1].pc = "read",
                        ![1].line = << >>,
                        ![1].partial = IF sessions[1].line = <<"/partial">> THEN TRUE ELSE @,
                        ![1].base = IF op = "display_base" THEN TRUE ELSE @]
                  /\ UNCHANGED fpc
             ELSE Goto("exit_err")
    /\ UNCHANGED <<fresh, op, arg, polls, cli, waiting, owner, panel>>
    /\ UNCHANGED bufvars

----------------------------------------------------------------------------
(* run_server and handle_connection *)

\* std::fs::remove_file(socket)?, if the socket file exists
RemoveFile ==
    /\ fpc = "remove_file"
    /\ \E ok \in BOOLEAN : Goto(IF ok THEN "maybe_init" ELSE "exit_err")
    /\ NoCall

\* UnixListener::bind(socket)?
Bind ==
    /\ fpc = "bind"
    /\ \E ok \in BOOLEAN : Goto(IF ok THEN "incoming" ELSE "exit_err")
    /\ NoCall

\* a client connects to the bound socket, whatever the server is doing
ClientConnect ==
    /\ fpc \in {"incoming", "handle_connection"}
    /\ waiting + Len(sessions) < MaxConns
    /\ waiting' = waiting + 1
    /\ UNCHANGED <<epd, fresh, op, arg, polls, fb, draws, branch, cli, fpc, sessions, owner, panel>>

\* mutant: handle_connection runs in a thread of its own and the loop goes on
AfterAccept_spawned == "incoming"

\* Ok(stream) => handle_connection(stream, &mut epd, ...): the loop is inside
\* the call until it returns
AfterAccept == "handle_connection"

\* listener.incoming() yields a connection
Accept ==
    /\ fpc = "incoming"
    /\ waiting > 0
    /\ waiting' = waiting - 1
    /\ sessions' = Append(sessions, NewSession)
    /\ fpc' = AfterAccept
    /\ UNCHANGED <<epd, fresh, op, arg, polls, fb, draws, branch, cli, owner, panel>>

\* the next line of connection c
ConnRead(c) ==
    /\ sessions[c].pc = "read"
    /\ sessions[c].reads < MaxReads
    /\ \E line \in PacketLines :
          sessions' = [sessions EXCEPT ![c].pc = "dispatch", ![c].line = line,
                                        ![c].reads = @ + 1]
    /\ UNCHANGED fpc
    /\ NoCall

\* read == 0, the client has closed: handle_connection returns Ok and the
\* server waits for the next connection.  An error of read_line, of try_clone
\* or of respond returns Err, which run_server prints and then does the same.
ConnClosed(c) ==
    /\ sessions[c].pc \in {"read", "respond"}
    /\ sessions' = [sessions EXCEPT ![c] = Done]
    /\ fpc' = "incoming"
    /\ NoCall

\* the response to a packet that needs no driver call; the empty line has none
LocalResponse(packet) ==
    CASE packet.cmd = "PartialOff" -> "OK PARTIAL_OFF"
      [] packet.cmd = "Ping" -> "PONG"
      [] packet.cmd = "Text" -> "IGNORED EMPTY"

IsLocal(line) ==
    LET packet == parse_packet(line)
    IN  IF packet.cmd = "Text" THEN packet.payload = None
        ELSE packet.cmd \in {"PartialOff", "Ping"}

\* an empty line is skipped
ConnSkip(c) ==
    /\ sessions[c].pc = "dispatch"
    /\ sessions[c].line = << >>
    /\ sessions' = [sessions EXCEPT ![c].pc = "read"]
    /\ UNCHANGED fpc
    /\ NoCall

\* PARTIAL_OFF, PING, TEXT without text: nothing is called
ConnLocal(c) ==
    /\ sessions[c].pc = "dispatch"
    /\ sessions[c].line # << >>
    /\ IsLocal(sessions[c].line)
    /\ sessions' = [sessions EXCEPT
          ![c].pc = "respond",
          ![c].response = LocalResponse(parse_packet(sessions[c].line)),
          ![c].partial = IF parse_packet(sessions[c].line).cmd = "PartialOff" THEN FALSE ELSE @]
    /\ UNCHANGED fpc
    /\ NoCall

\* the driver call of a packet: CLEAR, PARTIAL_ON, or text
ConnOp(session, c) ==
    LET packet == parse_packet(session.line)
    IN  CASE packet.cmd = "Clear" -> <<"clear", bg_color(c), "OK CLEAR">>
          [] packet.cmd = "PartialOn" ->
               <<"display_base", blank_framebuffer(bg_color(c)), "OK PARTIAL_ON">>
          [] OTHER ->
               << IF session.partial THEN "display_partial"
                  ELSE IF c.fast THEN "display_fast" ELSE "display",
                  build_framebuffer(fg_color(c), bg_color(c)), "OK TEXT" >>

ConnCall(c) ==
    /\ sessions[c].pc = "dispatch"
    /\ sessions[c].line # << >>
    /\ ~ IsLocal(sessions[c].line)
    /\ FeCall(c, ConnOp(sessions[c], cli)[1], ConnOp(sessions[c], cli)[2])
    /\ sessions' = [sessions EXCEPT ![c].pc = "call"]
    /\ UNCHANGED <<cli, fpc, waiting>>

\* the call returns: Ok gives the response (after PARTIAL_ON with partial
\* on); an error leaves handle_connection through `?`, the server prints it
\* and waits for the next connection
ConnReturn(c) ==
    /\ sessions[c].pc = "call"
    /\ owner = c /\ epd.result = Running
    /\ \E r \in Results(epd, op, arg) :
          /\ epd' = Finish(epd, r)
          /\ IF r = Ok
             THEN /\ sessions' = [sessions EXCEPT
                        ![c].pc = "respond",
                        ![c].response = ConnOp(sessions[c], cli)[3],
                        ![c].partial = IF op = "display_base" THEN TRUE ELSE @,
                        ![c].base = IF op = "display_base" THEN TRUE ELSE @]
                  /\ UNCHANGED fpc
             ELSE /\ sessions' = [sessions EXCEPT ![c] = Done]
                  /\ fpc' = "incoming"
    /\ UNCHANGED <<fresh, op, arg, polls, cli, waiting, owner, panel>>
    /\ UNCHANGED bufvars

\* respond(&mut writer, response)?
ConnRespond(c) ==
    /\ sessions[c].pc = "respond"
    /\ sessions' = [sessions EXCEPT ![c].pc = "read", ![c].line = << >>, ![c].response = ""]
    /\ UNCHANGED fpc
    /\ NoCall

Serving == cli.command = "Serve" /\ fpc \in {"incoming", "handle_connection"}

\* the steps of handle_connection, for a connection that has been accepted
HandleRead == Serving /\ \E c \in DOMAIN sessions : ConnRead(c)
HandleClosed == Serving /\ \E c \in DOMAIN sessions : ConnClosed(c)
HandleSkip == Serving /\ \E c \in DOMAIN sessions : ConnSkip(c)
HandleLocal == Serving /\ \E c \in DOMAIN sessions : ConnLocal(c)
HandleCall == Serving /\ \E c \in DOMAIN sessions : ConnCall(c)
HandleReturn == Serving /\ \E c \in DOMAIN sessions : ConnReturn(c)
HandleRespond == Serving /\ \E c \in DOMAIN sessions : ConnRespond(c)

FrontNext ==
    \/ MaybeInitSkip
    \/ MaybeInitCall
    \/ ClearCall
    \/ RenderTextCall
    \/ SleepCall
    \/ MainReturn
    \/ ReplRead
    \/ ReplEof
    \/ ReplReadError
    \/ ReplLocal
    \/ ReplCall
    \/ ReplReturn
    \/ RemoveFile
    \/ Bind
    \/ ClientConnect
    \/ Accept
    \/ HandleRead
    \/ HandleClosed
    \/ HandleSkip
    \/ HandleLocal
    \/ HandleCall
    \/ HandleReturn
    \/ HandleRespond

FrontSpec == FrontInit /\ [][FrontNext]_vars

----------------------------------------------------------------------------
(* Reading the log of the current call *)

Log == epd.log
Last == Len(epd.log)
Returned == epd.result \notin {Running, NotCalled}

IsWrite(ev) == ev.k = "write"
IsFailedWrite(ev) == ev.k = "write" /\ ev.ret # "ok"
IsCommand(ev, c) == ev.k = "write" /\ ev.dc = "low" /\ ev.bytes = <<c>>
IsBusy(ev, level) == ev.k = "busy" /\ ev.level = level

\* an image operation handed a byte array that is not a frame
Mismatch == op \in ImageOps /\ Len(Bytes(arg)) # 4000

----------------------------------------------------------------------------
(* C1 *)

\* C1: display, display_fast, display_base and display_partial handed an
\* image whose length is not 4000 have written nothing to the bus and set no
\* control line when they return the BufferSize error.
C1_NoTrafficOnMismatch ==
    (Mismatch /\ Returned /\ epd.result.err = "BufferSize") =>
        \A i \in 1..Last : Log[i].k \notin {"write", "line"}

----------------------------------------------------------------------------
(* C2 *)

\* C2: an image operation handed L # 4000 bytes returns, unless the transport
\* failed, BufferSize with expected = 4000 and actual = L; handed 4000 bytes it
\* never returns BufferSize.
C2_BufferSizeError ==
    (op \in ImageOps /\ Returned) =>
        LET L == Len(Bytes(arg))
        IN  /\ (L # 4000 /\ epd.result.err # "Spi") =>
                  epd.result = [err |-> "BufferSize", expected |-> 4000, actual |-> L]
            /\ L = 4000 => epd.result.err # "BufferSize"
            /\ bytes_per_row * HEIGHT = 4000

C2_Witness ==
    /\ op = "display_partial"
    /\ arg = "long"
    /\ epd.result = [err |-> "BufferSize", expected |-> 4000, actual |-> 4001]

----------------------------------------------------------------------------
(* C3 *)

\* index of the last bus write of the log (0 if there is none)
RECURSIVE LastWrite(_)
LastWrite(i) ==
    IF i = 0 THEN 0
    ELSE IF IsWrite(Log[i]) THEN i ELSE LastWrite(i - 1)

\* C3: a clear or display operation that returns Ok wrote master activation
\* 0x20 as its last bus write, and after it only polled the busy line and
\* slept: its last two events are a read of the busy line that returned idle
\* and the settle sleep.
C3_EndsWithBusyWait ==
    (op \in DisplayOps /\ epd.result = Ok) =>
        LET j == LastWrite(Last)
        IN  /\ j >= 1
            /\ IsCommand(Log[j], 32)
            /\ Log[j].ret = "ok"
            /\ \A i \in (j + 1)..Last : Log[i].k \in {"busy", "sleep"}
            /\ Last >= j + 2
            /\ IsBusy(Log[Last - 1], "low")
            /\ Log[Last] = Sleep(10)
            /\ \A i \in (j + 1)..(Last - 2) : ~IsBusy(Log[i], "low")

C3_Witness ==
    /\ op = "display_fast"
    /\ epd.result = Ok
    /\ polls = 2
    /\ IsBusy(Log[Last - 1], "low")

----------------------------------------------------------------------------
(* C4 *)

\* C4: when a busy-wait has read idle after the line read high N times, the
\* log of the wait is N times (read high, sleep 10 ms), then one read that
\* returned idle, then the settle sleep of 10 ms: N+1 reads, a poll sleep
\* between consecutive reads, and no read before or after them.
C4_BusyWaitShape ==
    LET N == polls
        first == Last - 2 * N - 1     \* where the wait's first event would be
    IN  /\ (Last >= 1 /\ IsBusy(Log[Last], "low")) =>
              LET start == Last - 2 * N
              IN  /\ start >= 1
                  /\ \A j \in 0..(N - 1) :
                        /\ IsBusy(Log[start + 2 * j], "high")
                        /\ Log[start + 2 * j + 1] = Sleep(10)
                  /\ start >= 2 => Log[start - 1].k # "busy"
                  /\ start >= 3 => Log[start - 2].k # "busy"
        /\ (Last >= 2 /\ IsBusy(Log[Last - 1], "low")) =>
              /\ Log[Last] = Sleep(10)
              /\ first >= 1
              /\ \A j \in 0..(N - 1) :
                    /\ IsBusy(Log[first + 2 * j], "high")
                    /\ Log[first + 2 * j + 1] = Sleep(10)
        /\ (Last >= 3 /\ IsBusy(Log[Last - 2], "low")) => Log[Last].k # "busy"

C4_Witness ==
    /\ op = "init"
    /\ polls = 2
    /\ Last >= 6
    /\ IsBusy(Log[Last - 5], "high")
    /\ IsBusy(Log[Last - 3], "high")
    /\ IsBusy(Log[Last - 1], "low")
    /\ Log[Last] = Sleep(10)

----------------------------------------------------------------------------
(* C5 *)

AtPoll == epd.result = Running /\ Current(epd).k = "poll"

\* a step taken while the driver polls: it stays at the poll, still running,
\* having added only a high read and its sleep; or it leaves the poll upon a
\* read that returned idle
PollStep ==
    AtPoll =>
        \/ /\ epd'.pc = epd.pc
           /\ epd'.result = Running
           /\ epd'.log = Log \o << BusyRead("high"), Sleep(10) >>
        \/ /\ epd'.pc = epd.pc + 1
           /\ epd'.log = Append(Log, BusyRead("low"))

\* C5: the busy-wait has no timeout.  If the busy line eventually reads idle
\* at every busy-wait, every operation that was called returns; and a driver
\* that polls leaves the poll only upon a read that returned idle: while the
\* line reads high it stays there, does not return and writes nothing.
C5_NoTimeout ==
    /\ (epd.result = Running) ~> (epd.result # Running)
    /\ [][PollStep]_vars

C5_Witness == AtPoll /\ polls = MaxBusy /\ op = "init_fast"

----------------------------------------------------------------------------
(* C6 *)

\* the parameter of command 0x22 has just been written
ControlWritten ==
    /\ Last >= 3
    /\ IsWrite(Log[Last])
    /\ IsCommand(Log[Last - 2], 34)

\* C6 as claimed: the update-control byte display(bytes) issues is the one of
\* the mode the most recent init call selected (init: Normal 0xF7, init_fast:
\* Fast 0xC7).
C6_StickyMode ==
    (op = "display" /\ ControlWritten /\ epd.hist.lastInit # "none") =>
        Log[Last].bytes = IF epd.hist.lastInit = "Fast" THEN <<199>> ELSE <<247>>

\* C6 as amended: the driver retains no update mode; display(bytes) issues the
\* Normal update-control byte 0xF7 as the parameter of command 0x22 whether
\* the most recent init call was init() or init_fast(), or there was none.
C6_DisplayAlwaysNormal ==
    (op = "display" /\ ControlWritten) =>
        /\ Log[Last].bytes = <<247>>
        /\ Log[Last].dc = "high"

C6_Witness ==
    /\ op = "display"
    /\ ControlWritten
    /\ epd.hist.lastInit = "Fast"
    /\ Log[Last].bytes = <<247>>

----------------------------------------------------------------------------
(* C7 *)

\* C7: what a call does on the lines and the bus, and what it returns, depends
\* on the operation, its argument and the responses of the bus and the busy
\* line only.  The driver with its history of calls and a newly constructed
\* driver, given the same call and the same responses, have the same log and
\* the same result at every step.  display_partial is not refused for lack of
\* a display_base: with a frame of 4000 bytes and a working bus it returns Ok.
C7_SelfContained ==
    /\ op # "none" =>
          /\ fresh.log = epd.log
          /\ fresh.result = epd.result
          /\ fresh.pc = epd.pc
    /\ fresh.hist = IF fresh.result = Ok THEN Completed(NoHistory, op) ELSE NoHistory
    /\ (op = "display_partial" /\ Returned) =>
          \/ epd.result = Ok
          \/ epd.result.err = "Spi"
          \/ epd.result.err = "BufferSize" /\ Len(Bytes(arg)) # 4000

C7_Witness ==
    /\ op = "display_partial"
    /\ epd.result = Ok
    /\ epd.hist = [lastInit |-> "Fast", baseDone |-> TRUE, asleep |-> TRUE]
    /\ fresh.hist = NoHistory
    /\ fresh.result = Ok

----------------------------------------------------------------------------
(* C8 *)

ModeByte(o) ==
    CASE o \in {"clear", "display", "display_base"} -> 247
      [] o = "display_fast" -> 199
      [] o = "display_partial" -> 255

\* C8: in clear, display, display_fast, display_base and display_partial the
\* bus write after command 0x22 is one data byte fixed by the operation (0xF7
\* for clear, display and display_base, 0xC7 for display_fast, 0xFF for
\* display_partial), the next bus write is command 0x20, and 0x20 is written
\* only so; the three bytes differ from one another.
C8_ModeByOperation ==
    /\ op \in DisplayOps =>
          /\ ControlWritten =>
                /\ Log[Last].bytes = << ModeByte(op) >>
                /\ Log[Last].dc = "high"
                /\ Log[Last - 1] = SetLine("dc", "high")
          /\ (Last >= 5 /\ IsCommand(Log[Last - 4], 34)) =>
                /\ Log[Last - 1] = SetLine("dc", "low")
                /\ IsCommand(Log[Last], 32)
          /\ (Last >= 1 /\ IsCommand(Log[Last], 32)) =>
                /\ Last >= 5
                /\ IsCommand(Log[Last - 4], 34)
                /\ Log[Last - 2].bytes = << ModeByte(op) >>
                /\ Log[Last - 2].ret = "ok"
    /\ Cardinality({ControlByte(m) : m \in UpdateModes}) = 3

C8_Witness ==
    /\ op = "display_partial"
    /\ Last >= 5
    /\ IsCommand(Log[Last], 32)
    /\ Log[Last - 2].bytes = <<255>>

----------------------------------------------------------------------------
(* C9 *)

\* C9: a bus write that failed is the last thing the operation did: nothing
\* follows it in the log (no second attempt, no further write, no master
\* activation, no read of the busy line), and the operation has returned the
\* transport's error.
C9_NoRetry ==
    /\ \A i \in 1..(Last - 1) : ~IsFailedWrite(Log[i])
    /\ (Last >= 1 /\ IsFailedWrite(Log[Last])) =>
          /\ epd.result.err = "Spi"
          /\ epd.result.cause = Log[Last].ret
    /\ (Returned /\ epd.result.err = "Spi") => (Last >= 1 /\ IsFailedWrite(Log[Last]))

C9_Witness ==
    /\ op = "init"
    /\ Last >= 12
    /\ IsFailedWrite(Log[Last])
    /\ Log[Last].dc = "high"
    /\ epd.result = [err |-> "Spi", cause |-> "Io"]

----------------------------------------------------------------------------
(* C10 *)

FailedPrimitive == IF Log[Last].dc = "low" THEN "command" ELSE "data"

----------------------------------------------------------------------------
(* Framing of the bus writes and the frames of clear and display_base *)

\* the bus writes of the current call, in order
Writes == SelectSeq(Log, IsWrite)

\* the driver is about to perform a bus write
AtWrite == epd.result = Running /\ Current(epd).k = "write"

\* the level the data/command line must have for a write of this primitive
Framing(prim) == IF prim = "command" THEN "low" ELSE "high"

\* C18: whenever the driver is about to write to the bus, the step just before
\* drove the data/command line, to low for a command opcode, which is a single
\* byte, and to high for parameter or image bytes; the line has that level.
C18_Framing ==
    AtWrite =>
        LET ins == Current(epd)
        IN  /\ Last >= 1
            /\ Log[Last] = SetLine("dc", Framing(ins.prim))
            /\ epd.dc = Framing(ins.prim)
            /\ ins.prim = "command" => Len(ins.bytes) = 1
            /\ ins.prim \in {"command", "data"}

\* a full image is about to go out as data on a driver whose line started low
C18_Witness ==
    /\ AtWrite
    /\ Current(epd).prim = "data"
    /\ Len(Current(epd).bytes) = Expected
    /\ epd.dc = "high"
    /\ op = "display_partial"

\* master activation (0x20) has just been written
Activated == Last >= 1 /\ IsCommand(Log[Last], 32)

\* C19: when display_base triggers the refresh, the bus has carried exactly
\* 0x24, the image, 0x26, the same image, 0x22 with the Normal control byte and
\* 0x20, in this order; no other display operation ever writes 0x26.
C19_BaseWritesBothFrames ==
    /\ (op = "display_base" /\ Activated) =>
          /\ Len(Writes) = 7
          /\ IsCommand(Writes[1], 36)
          /\ Writes[2].dc = "high" /\ Writes[2].bytes = Bytes(arg)
          /\ IsCommand(Writes[3], 38)
          /\ Writes[4].dc = "high" /\ Writes[4].bytes = Bytes(arg)
          /\ IsCommand(Writes[5], 34)
          /\ Writes[6].dc = "high" /\ Writes[6].bytes = << ControlByte("Normal") >>
          /\ IsCommand(Writes[7], 32)
    /\ (op \in DisplayOps \ {"display_base"} /\ Last >= 1) =>
          ~ (IsWrite(Log[Last]) /\ Log[Last].bytes = <<38>>)

\* display_base of an image with ink returned Ok
C19_Witness ==
    /\ op = "display_base" /\ arg = "ink" /\ epd.result = Ok
    /\ Len(Writes) = 7

\* C20: when clear triggers the refresh, the bus has carried 0x24 once, then
\* HEIGHT data writes of bytes_per_row fill bytes each (a frame of 4000 bytes,
\* the length display requires; 0x00 for On, 0xFF otherwise), then 0x22 with
\* the Normal control byte and 0x20.
C20_ClearFrame ==
    (op = "clear" /\ Activated) =>
        LET rows == SubSeq(Writes, 2, HEIGHT + 1)
        IN  /\ Len(Writes) = HEIGHT + 4
            /\ IsCommand(Writes[1], 36)
            /\ \A i \in 1..HEIGHT :
                  /\ rows[i].dc = "high"
                  /\ Len(rows[i].bytes) = bytes_per_row
                  /\ \A j \in 1..bytes_per_row :
                        rows[i].bytes[j] = IF arg = "On" THEN 0 ELSE 255
            /\ Len(rows) * bytes_per_row = 4000
            /\ Expected = 4000
            /\ IsCommand(Writes[HEIGHT + 2], 34)
            /\ Writes[HEIGHT + 3].dc = "high"
            /\ Writes[HEIGHT + 3].bytes = << ControlByte("Normal") >>
            /\ IsCommand(Writes[HEIGHT + 4], 32)

\* clear of either colour returned Ok after its 250 rows
C20_Witness ==
    /\ op = "clear" /\ arg = "On" /\ epd.result = Ok
    /\ Len(Writes) = HEIGHT + 4

----------------------------------------------------------------------------
(* The framebuffer *)

\* the least number of bytes that hold w bits
Ceil8(w) == IF w % 8 = 0 THEN w \div 8 ELSE (w \div 8) + 1

InBounds(self) == (0..(self.width - 1)) \X (0..(self.height - 1))

\* the bit of pixel (x, y) in the packed bytes: TRUE when it is set
BitAt(self, x, y) ==
    (self.data[y * Ceil8(self.width) + (x \div 8) + 1] \div (2 ^ (7 - (x % 8)))) % 2 = 1

\* writing the same pixel twice is writing it once
Idempotent(self, x, y) ==
    \A color \in Colors :
        set_pixel(set_pixel(self, x, y, color), x, y, color) = set_pixel(self, x, y, color)

\* the buffer after set_pixel(x, y, On) and then set_pixel(x, y, Off)
RoundTrip(self, x, y) == set_pixel(set_pixel(self, x, y, "On"), x, y, "Off")

\* C14 as stated: for any contents and in-bounds (x, y), foreground then
\* background restores the original bit of (x, y), and a repeated write
\* changes nothing.
C14_RestoresOriginal ==
    \A c \in InBounds(fb) :
        /\ BitAt(RoundTrip(fb, c[1], c[2]), c[1], c[2]) = BitAt(fb, c[1], c[2])
        /\ Idempotent(fb, c[1], c[2])

\* C14: for any contents and in-bounds (x, y), foreground then background
\* leaves the bit of (x, y) set (background) and every other bit as it was,
\* which is the original buffer exactly when the pixel was background before;
\* a repeated write with the same arguments changes nothing.
C14_EndsBackground ==
    \A c \in InBounds(fb) :
        LET after == RoundTrip(fb, c[1], c[2])
        IN  /\ BitAt(after, c[1], c[2])
            /\ \A i \in DOMAIN fb.data :
                  \/ after.data[i] = fb.data[i]
                  \/ /\ i = c[2] * Ceil8(fb.width) + (c[1] \div 8) + 1
                     /\ after.data[i] = fb.data[i] + 2 ^ (7 - (c[1] % 8))
            /\ after = set_pixel(fb, c[1], c[2], "Off")
            /\ (after = fb) = BitAt(fb, c[1], c[2])
            /\ Idempotent(fb, c[1], c[2])

\* pixel (8, 1) of a 9 by 2 buffer has been inked, and writing it background
\* gives the all-0xFF buffer back
C14_Witness ==
    /\ fb.width = 9 /\ fb.height = 2 /\ draws = 1
    /\ ~ BitAt(fb, 8, 1)
    /\ set_pixel(fb, 8, 1, "Off") = MonoImage_new(9, 2)
    /\ RoundTrip(fb, 8, 1) # fb

\* a pixel that lies outside the buffer
Outside(self, p) == p.x < 0 \/ p.y < 0 \/ p.x >= self.width \/ p.y >= self.height

\* the buffer is as new or clear left it
Cleared(self) == \E color \in Colors : self = MonoImage_clear(self, color)

\* C15: a pixel outside the buffer (a negative component, x >= width or
\* y >= height), of either colour, changes no byte and draw_iter returns Ok;
\* so does set_pixel, whose arguments are unsigned; a pixel outside at the
\* head of a batch does not keep the rest of the batch from being drawn.
C15_OutsideIgnored ==
    /\ \A p \in Pixels(fb) :
          Outside(fb, p) =>
              /\ draw_iter(fb, <<p>>) = [image |-> fb, result |-> Ok]
              /\ (p.x >= 0 /\ p.y >= 0) => set_pixel(fb, p.x, p.y, p.color) = fb
              /\ draws = 0 =>
                    \A q \in Pixels(fb) : draw_iter(fb, <<p, q>>) = draw_iter(fb, <<q>>)
    /\ (branch \in {"continue", "return"} /\ draws = 1) => Cleared(fb)

\* a pixel at x >= width or y >= height was handed to a 9 by 2 buffer full of
\* ink, whose last byte of a row has seven bits that belong to no pixel
C15_Witness ==
    /\ fb = MonoImage_clear(MonoImage_new(9, 2), "On")
    /\ draws = 1
    /\ branch = "return"

\* every byte of a buffer is b
AllBytes(self, b) == \A i \in DOMAIN self.data : self.data[i] = b

\* C16: whatever the dimensions and the contents, clear(Off) makes every byte
\* 0xFF and clear(On) makes every byte 0x00, through MonoImage::clear and
\* through DrawTarget::clear, which returns Ok; the number of bytes stays; a
\* newly created buffer is what clear(Off) gives; a buffer nothing was drawn on
\* since its last clear is all 0xFF or all 0x00.
C16_ClearFills ==
    /\ AllBytes(MonoImage_clear(fb, "Off"), 255)
    /\ AllBytes(MonoImage_clear(fb, "On"), 0)
    /\ \A color \in Colors :
          /\ Len(MonoImage_clear(fb, color).data) = Len(fb.data)
          /\ DrawTarget_clear(fb, color) =
                [image |-> MonoImage_clear(fb, color), result |-> Ok]
    /\ MonoImage_new(fb.width, fb.height) = MonoImage_clear(fb, "Off")
    /\ draws = 0 => (AllBytes(fb, 255) \/ AllBytes(fb, 0))

\* a 9 by 2 buffer has been cleared to ink: four bytes 0x00
C16_Witness ==
    /\ fb.width = 9 /\ fb.height = 2
    /\ draws = 0
    /\ fb.data = <<0, 0, 0, 0>>

----------------------------------------------------------------------------
(* One row of the panel *)

\* the bits of the row: byte (from 1) and bit number (7 is the leftmost)
RowBits == (1..Len(fb.data)) \X (0..7)

BitOf(byte, b) == (byte \div (2 ^ b)) % 2

\* the bits in which two buffers differ
Changed(a, b) == { c \in RowBits : BitOf(a.data[c[1]], c[2]) # BitOf(b.data[c[1]], c[2]) }

\* the bits that inking pixel x of a blank row changes
PixelBits(x) ==
    LET blank == MonoImage_clear(fb, "Off")
    IN  Changed(blank, set_pixel(blank, x, 0, "On"))

\* the bits of the row that no pixel changes
Unused == RowBits \ UNION { PixelBits(x) : x \in 0..(fb.width - 1) }

\* every pixel has one bit of the row, and no two pixels the same
OneBitEach ==
    /\ \A x \in 0..(fb.width - 1) : Cardinality(PixelBits(x)) = 1
    /\ Cardinality(UNION { PixelBits(x) : x \in 0..(fb.width - 1) }) = fb.width

\* C17 as stated: the row of 122 pixels has 16 bytes, and the bits that belong
\* to no pixel are the low 2 bits of the last byte.
C17_LowTwoUnused ==
    draws = 0 =>
        /\ fb.bytes_per_row = 16
        /\ OneBitEach
        /\ Unused = { <<16, 0>>, <<16, 1>> }

\* C17: the row of 122 pixels has 16 bytes; pixel x is bit 7 - x mod 8 of byte
\* x div 8, so the bits that belong to no pixel are the low 6 bits of the last
\* byte, whose high 2 bits are pixels 120 and 121; no pixel write changes the
\* low 6 bits.
C17_LowSixUnused ==
    /\ draws = 0 =>
          /\ fb.bytes_per_row = 16
          /\ OneBitEach
          /\ \A x \in 0..(fb.width - 1) : PixelBits(x) = { <<(x \div 8) + 1, 7 - (x % 8)>> }
          /\ Unused = { <<16, b>> : b \in 0..5 }
    /\ fb.data[16] % 64 \in {0, 63}

\* pixel 121, the last of the row, has been inked: the last byte is 0xBF
C17_Witness ==
    /\ fb.width = WIDTH
    /\ draws = 1
    /\ branch = "write"
    /\ fb.data[16] = 191

----------------------------------------------------------------------------
(* The front end *)

\* the connections being processed, and those inside a driver call
Active == { c \in DOMAIN sessions : sessions[c].pc # "done" }
InCall == { c \in DOMAIN sessions : sessions[c].pc = "call" }

\* C11: in the socket server at most one connection is being processed, and it
\* is the one accepted last: every earlier one is finished.  The server is at
\* incoming() only when no connection is being processed.  A driver operation
\* in progress was requested by that one connection (or is the init of
\* run_server, before any connection), and a connection inside a driver call
\* is the one whose operation is in progress: two operations, and so their bus
\* writes, never overlap, also while other clients are waiting.
C11_Serialized ==
    cli.command = "Serve" =>
        /\ Cardinality(Active) <= 1
        /\ Active \subseteq { Len(sessions) }
        /\ fpc = "incoming" => Active = {}
        /\ epd.result = Running =>
              IF owner = 0
              THEN fpc = "maybe_init" /\ sessions = << >>
              ELSE InCall = {owner} /\ Active = {owner} /\ fpc = "handle_connection"
        /\ InCall # {} => epd.result = Running /\ owner \in InCall
        /\ \A c \in Active : sessions[c].pc \in {"read", "dispatch", "respond"} =>
              epd.result # Running

\* the first connection is inside clear, the second packet it sent, while
\* another client has connected and waits to be accepted
C11_Witness ==
    /\ cli.command = "Serve"
    /\ waiting = 1
    /\ InCall = {1}
    /\ sessions[1].reads = 2
    /\ op = "clear" /\ epd.result = Running /\ owner = 1

\* C12: in every run of the front end (clear, write, REPL, socket server), no
\* clear or display operation is in progress once sleep() has been issued and
\* init() or init_fast() not again: sleep() is the last driver call of clear,
\* of write and of the REPL, and the socket server never calls it.
C12_NoDisplayAsleep ==
    /\ (epd.result = Running /\ op \in DisplayOps) => panel # "asleep"
    /\ panel = "asleep" =>
          /\ op = "sleep"
          /\ fpc \in {"sleep", "exit_ok", "exit_err"}
          /\ cli.command # "Serve"

\* the REPL has displayed, stdin has ended, and sleep() has returned Ok
C12_Witness ==
    /\ cli.command = "Repl"
    /\ panel = "asleep"
    /\ op = "sleep" /\ epd.result = Ok
    /\ fpc = "exit_ok"
    /\ epd.hist.asleep

----------------------------------------------------------------------------
(* C23 *)

\* the registers display_partial configures before it writes the image
ConfigRegisters == {60, 1, 17, 68, 69, 78, 79}

\* C23: an image operation handed a byte array whose length is not 4000 never
\* writes master activation 0x20 nor a RAM-write command 0x24 or 0x26, and
\* transmits no image byte: display, display_fast and display_base write
\* nothing at all, and what display_partial writes before the length is
\* checked are the seven configuration registers, each followed by its
\* parameter of at most four bytes.
C23_NoRefreshOnMismatch ==
    Mismatch =>
        /\ \A i \in 1..Len(Writes) :
              /\ ~ IsCommand(Writes[i], 32)
              /\ ~ IsCommand(Writes[i], 36)
              /\ ~ IsCommand(Writes[i], 38)
              /\ Writes[i].dc = "low" =>
                    /\ Len(Writes[i].bytes) = 1
                    /\ Writes[i].bytes[1] \in ConfigRegisters
              /\ Writes[i].dc = "high" =>
                    /\ i > 1
                    /\ Writes[i - 1].dc = "low"
                    /\ Len(Writes[i].bytes) <= 4
                    /\ Len(Writes[i].bytes) < Len(Bytes(arg))
        /\ Len(Writes) <= 14
        /\ op # "display_partial" => Writes = << >>
        /\ Returned => epd.result.err \in {"BufferSize", "Spi"}

\* display_partial of a short image has configured its registers, written
\* neither command, and returned BufferSize
C23_Witness ==
    /\ op = "display_partial" /\ arg = "short"
    /\ Len(Writes) = 14
    /\ epd.result = [err |-> "BufferSize", expected |-> 4000, actual |-> 3999]

----------------------------------------------------------------------------
(* C21 *)

\* the bits of a buffer: byte (from 0) and mask of the bit within it
BufferBits(self) == (0..(Len(self.data) - 1)) \X {128, 64, 32, 16, 8, 4, 2, 1}

\* the bit of the buffer at byte index i under mask m: TRUE when it is set
BitSet(self, i, m) == (self.data[i + 1] \div m) % 2 = 1

\* C21: for in-bounds (x, y) and either colour, set_pixel leaves the number of
\* bytes and every bit of the buffer as it was, the padding bits of the rows
\* included, except the bit at byte index y*bytes_per_row + floor(x/8) under
\* mask 0x80 >> (x mod 8); that bit is clear after On and set after Off,
\* whatever it was before.
C21_OneBit ==
    \A c \in InBounds(fb), color \in Colors :
        LET x == c[1]
            y == c[2]
            after == set_pixel(fb, x, y, color)
            idx == y * fb.bytes_per_row + (x \div 8)
            m == 128 \div (2 ^ (x % 8))
        IN  /\ Len(after.data) = Len(fb.data)
            /\ after.width = fb.width /\ after.height = fb.height
            /\ after.bytes_per_row = fb.bytes_per_row
            /\ <<idx, m>> \in BufferBits(fb)
            /\ BitSet(after, idx, m) = (color = "Off")
            /\ \A b \in BufferBits(fb) :
                  b # <<idx, m>> => BitSet(after, b[1], b[2]) = BitSet(fb, b[1], b[2])

\* a 9 by 2 buffer was cleared to ink and pixel (8, 0) then written
\* background: the top bit of the second byte is set, its seven padding bits
\* and every other byte are as clear left them
C21_Witness ==
    /\ fb.width = 9 /\ fb.height = 2
    /\ draws = 1 /\ branch = "write"
    /\ fb.data = <<0, 128, 0, 0>>

----------------------------------------------------------------------------
(* C22 *)

\* C22: a display_partial call of the front end is made by the REPL loop or
\* by a connection, in which a display_base call has returned Ok before; and
\* partial updates are on in a loop only if a display_base call of that loop
\* has returned Ok: a display_base that fails ends the loop.
C22_PartialAfterBase ==
    /\ (op = "display_partial" /\ epd.result = Running) =>
          /\ owner \in DOMAIN sessions
          /\ sessions[owner].pc = "call"
          /\ sessions[owner].partial
          /\ sessions[owner].base
          /\ cli.command \in {"Repl", "Serve"}
    /\ \A c \in DOMAIN sessions :
          sessions[c].partial => sessions[c].base

\* the second connection is inside display_partial after its own PARTIAL_ON;
\* the first one is closed
C22_Witness ==
    /\ cli.command = "Serve"
    /\ Len(sessions) = 2
    /\ sessions[1] = Done
    /\ owner = 2
    /\ op = "display_partial" /\ epd.result = Running
    /\ sessions[2].base

====
